---- MODULE Spec2Model ----
(***************************************************************************)
(* Model of the SOAP 1.2 router core of onvif-device:                      *)
(*   soap-router/src/router.rs  (SoapMessage, SoapRouter, merge)           *)
(*   soap-router/src/fault.rs   (SoapFault, PrefixGenerator, rendering)    *)
(*                                                                         *)
(* XML nodes are records of one shape.  kind = "Element" is an             *)
(* xmltree::Element (prefix, namespace, namespaces, name, attributes,      *)
(* children); kind = "Text" is an XMLNode::Text.  An absent string        *)
(* (Option::None) is the value None; an absent element is a record of      *)
(* kind "None".  Attribute maps and namespace tables are sets of           *)
(* <<key, value>> pairs.  Strings built at run time (prefixes, Value       *)
(* texts) are sequences of string tokens.                                  *)
(***************************************************************************)
EXTENDS Integers, Sequences, FiniteSets, TLC

VARIABLES
    \* ---- SoapRouter and one call_internal task
    routes,         \* SoapRouter.routes: key -> handler, unset keys absent
    pc,             \* position of the call_internal task
    request,        \* the HTTP request body handed to the task
    soap_headers,   \* the headers snapshot of line 213
    fut,            \* the FuturesOrdered queue: one record per pushed future
    completed,      \* queue positions in the order their futures resolved
    yielded,        \* queue positions the stream has yielded so far, in order
    soap_reponses,  \* the Vec collected at line 242
    response,       \* the HTTP response returned, or None
    panic,          \* the panic that aborted the task, or None
    added,          \* the add_operation calls made so far: <<key, handler>>
    \* ---- merge_soap_enveloppe applied to two elements, and to three
    ma, mb, mres,
    mc, mright,     \* mres merged with mc; ma merged with the merge of mb, mc
    \* ---- one PrefixGenerator
    prev,           \* PrefixGenerator.prev
    emitted,        \* every string next() returned so far, in order
    \* ---- SoapMessage values produced by the constructors
    fault,          \* the SoapFault being converted, or None
    msg,            \* the SoapMessage produced, or None
    msgop,          \* which constructor produced msg
    new_args,       \* the arguments of the SoapFault::new call made
    ret             \* what the last accessor call on msg returned

vars == <<routes, pc, request, soap_headers, fut, completed, yielded,
          soap_reponses, response, panic, added, ma, mb, mres, mc, mright,
          prev, emitted, fault, msg, msgop, new_args, ret>>

routerVars == <<routes, pc, request, soap_headers, fut, completed, yielded,
                soap_reponses, response, panic>>
routeLogVars == <<added>>
mergeVars == <<ma, mb, mres, mc, mright>>
prefixVars == <<prev, emitted>>
msgVars == <<fault, msg, msgop, new_args, ret>>

None == "None"

ENV_NS == "http://www.w3.org/2003/05/soap-envelope"
XML_NS == "http://www.w3.org/XML/1998/namespace"
M_NS == "http://www.example.org"
OTHER_NS == "urn:other"

\* ------------------------------------------------------------------------
\* xmltree values

\* Element::new(name): every other field empty
Element_new(n) ==
    [kind |-> "Element", text |-> <<>>, prefix |-> None, namespace |-> None,
     namespaces |-> {}, name |-> n, attributes |-> {}, children |-> <<>>]

\* XMLNode::Text(s)
Text(s) ==
    [kind |-> "Text", text |-> s, prefix |-> None, namespace |-> None,
     namespaces |-> {}, name |-> "", attributes |-> {}, children |-> <<>>]

\* XMLNode::as_element() is Some
IsElement(node) == node.kind = "Element"

\* Namespace::put: binds the prefix unless it is bound already
Namespace_put(table, p, uri) ==
    IF \E b \in table : b[1] = p THEN table ELSE table \cup {<<p, uri>>}

\* xmltree's predicate for a bare name: the local name only
MatchName(e, n) == e.kind = "Element" /\ e.name = n

\* xmltree's predicate for (name, namespace): both, and the element's
\* namespace must be present
MatchQName(e, n, ns) ==
    e.kind = "Element" /\ e.name = n /\ e.namespace # None /\ e.namespace = ns

\* index of the first child matching (n, ns), ns = None for a bare name;
\* 0 when there is none (Element::get_child / get_mut_child)
get_child(e, n, ns) ==
    LET hits == {i \in 1..Len(e.children) :
                    IF ns = None THEN MatchName(e.children[i], n)
                                 ELSE MatchQName(e.children[i], n, ns)}
    IN IF hits = {} THEN 0 ELSE CHOOSE i \in hits : \A j \in hits : i <= j

\* ------------------------------------------------------------------------
\* merge_soap_enveloppe (router.rs 255-278)

\* accumulator.children.push(child)
PushChild(accumulator, child) ==
    [accumulator EXCEPT !.children = Append(@, child)]

\* MergeChild with a merger that skips children the accumulator's child
\* already holds
MergeChild_dedup(accumulator, child) ==
    IF ~IsElement(child) THEN PushChild(accumulator, child)
    ELSE LET k == get_child(accumulator, child.name, child.namespace)
             fresh == SelectSeq(child.children,
                        LAMBDA c : \A i \in DOMAIN accumulator.children[k].children :
                                      accumulator.children[k].children[i] # c)
         IN IF k = 0 THEN PushChild(accumulator, child)
            ELSE IF accumulator.children[k].attributes = child.attributes
                 THEN [accumulator EXCEPT !.children[k].children = @ \o fresh]
                 ELSE PushChild(accumulator, child)

\* one iteration of the loop over element.children
MergeChild(accumulator, child) ==
    IF ~IsElement(child) THEN PushChild(accumulator, child)
    ELSE LET k == get_child(accumulator, child.name, child.namespace)
         IN IF k = 0 THEN PushChild(accumulator, child)
            ELSE IF accumulator.children[k].attributes = child.attributes
                 THEN [accumulator EXCEPT
                          !.children[k].children = @ \o child.children]
                 ELSE PushChild(accumulator, child)

RECURSIVE MergeLoop(_, _, _)
MergeLoop(accumulator, kids, i) ==
    IF i > Len(kids) THEN accumulator
    ELSE \* the accumulator after this child is a value, computed once
         CHOOSE r \in {MergeLoop(a, kids, i + 1) :
                         a \in {MergeChild(accumulator, kids[i])}} : TRUE

\* merge_soap_enveloppe whose loop stops after the first child of element
merge_first_only(accumulator, element) ==
    IF element.children = <<>> THEN accumulator
    ELSE MergeChild(accumulator, element.children[1])

merge_soap_enveloppe(accumulator, element) ==
    MergeLoop(accumulator, element.children, 1)

\* Iterator::reduce(merge_soap_enveloppe) over a non-empty Vec
RECURSIVE ReduceFrom(_, _, _)
ReduceFrom(acc, items, i) ==
    IF i > Len(items) THEN acc
    ELSE \* the accumulator after this item is a value, computed once
         CHOOSE r \in {ReduceFrom(a, items, i + 1) :
                         a \in {merge_soap_enveloppe(acc, items[i])}} : TRUE

reduce(items) == ReduceFrom(items[1], items, 2)

\* ------------------------------------------------------------------------
\* PrefixGenerator (fault.rs 53-75)

BYTE_a == 97
BYTE_z == 122
U8 == 256

Letters == <<"a", "b", "c", "d", "e", "f", "g", "h", "i", "j", "k", "l", "m",
             "n", "o", "p", "q", "r", "s", "t", "u", "v", "w", "x", "y", "z">>

\* the character of one byte of the generator's alphabet
Chr(b) == IF b >= BYTE_a /\ b <= BYTE_z THEN Letters[b - BYTE_a + 1] ELSE "?"

\* String::from_utf8(bytes): the characters of the bytes
String_from_utf8(bytes) == [i \in 1..Len(bytes) |-> Chr(bytes[i])]

\* the while-let loop: pops trailing z bytes, increments the first other
RECURSIVE PopLoop(_, _)
PopLoop(p, to_add) ==
    IF p = <<>> THEN [prev |-> p, to_add |-> to_add]
    ELSE LET last == p[Len(p)]
             rest == SubSeq(p, 1, Len(p) - 1)
         IN IF last = BYTE_z
            THEN PopLoop(rest, Append(to_add, BYTE_a))
            ELSE [prev |-> Append(rest, (last + 1) % U8), to_add |-> to_add]

\* PrefixGenerator_next without line 72: the popped positions are lost
PrefixGenerator_next_no_extend(p) ==
    LET r == PopLoop(p, <<>>)
    IN IF r.prev = <<>> THEN <<BYTE_a>> ELSE r.prev

\* PrefixGenerator_next with line 72 putting the popped positions in front
PrefixGenerator_next_prepend(p) ==
    LET r == PopLoop(p, <<>>)
        q == IF r.prev = <<>> THEN <<BYTE_a>> ELSE r.prev
    IN r.to_add \o q

\* the generator's prev after one call of next(); the call returns
\* String_from_utf8 of it
PrefixGenerator_next(p) ==
    LET r == PopLoop(p, <<>>)
        q == IF r.prev = <<>> THEN <<BYTE_a>> ELSE r.prev
    IN q \o r.to_add

\* ------------------------------------------------------------------------
\* SoapMessage (router.rs 28-69)

PFX_xml == <<"x", "m", "l">>
PFX_env == <<"e", "n", "v">>

NoElement ==
    [kind |-> "None", text |-> <<>>, prefix |-> None, namespace |-> None,
     namespaces |-> {}, name |-> "", attributes |-> {}, children |-> <<>>]

SoapMessage_new ==
    LET body == [Element_new("Body") EXCEPT !.prefix = "env"]
    IN [Element_new("Enveloppe") EXCEPT
           !.namespace = ENV_NS,
           !.namespaces = Namespace_put(Namespace_put({}, PFX_xml, XML_NS),
                                        PFX_env, ENV_NS),
           !.children = <<body>>]

\* index of the Body child, 0 when get_child gives None (the unwrap panics)
get_body(m) == get_child(m, "Body", ENV_NS)

\* index of the Header child, 0 for None
get_headers(m) == get_child(m, "Header", ENV_NS)

\* ------------------------------------------------------------------------
\* SoapFault and its conversion to a SoapMessage (fault.rs 13-51, 77-158)

\* a SoapFault value: sub_codes a sequence of <<uri, local name>>, reason a
\* map given as a set of <<language, text>>, detail an element or NoElement
SoapFaultValue(code, sub_codes, reason, detail) ==
    [code |-> code, sub_codes |-> sub_codes, reason |-> reason,
     detail |-> detail]

NoFault == SoapFaultValue(None, <<>>, {}, NoElement)

\* SoapFault_new_panics without the test of lines 40-42
SoapFault_new_never_panics(reason) == FALSE

\* SoapFault::new: panics on an empty reason, else builds the value
SoapFault_new_panics(reason) == reason = {}

\* Language::to_639_3
to_639_3(ln) == CASE ln = "Eng" -> "eng" [] ln = "Fra" -> "fra" [] OTHER -> "und"

\* the orders in which a HashSet / HashMap of these entries can be iterated
IterationOrders(S) ==
    {o \in [1..Cardinality(S) -> S] : \A i, j \in DOMAIN o : o[i] = o[j] => i = j}

\* the set of URIs collected from sub_codes (lines 85-89)
SubcodeUris(val) == {val.sub_codes[i][1] : i \in DOMAIN val.sub_codes}

\* the values of prev after each of n successive calls of next() on a
\* generator whose prev is p; the calls are evaluated half by half, which
\* keeps the evaluation shallow for thousands of calls
RECURSIVE PrefixGenerator_take(_, _)
PrefixGenerator_take(p, n) ==
    IF n = 0 THEN <<>>
    ELSE IF n = 1 THEN <<PrefixGenerator_next(p)>>
    ELSE CHOOSE r \in
           {left \o PrefixGenerator_take(left[Len(left)], n - (n \div 2)) :
               left \in {PrefixGenerator_take(p, n \div 2)}} : TRUE

\* lines 90-92 as a list: each URI, in iteration order, with pfgen.next()
AssignPrefixes(uri_order) ==
    LET out == PrefixGenerator_take(<<>>, Len(uri_order))
    IN [i \in DOMAIN uri_order |-> <<uri_order[i], String_from_utf8(out[i])>>]

\* the HashMap collected from these pairs
code_namespaces(uri_order) ==
    LET pairs == AssignPrefixes(uri_order)
    IN {pairs[i] : i \in DOMAIN pairs}

\* code_namespaces.get(&ns).unwrap()
PrefixOf(cn, uri) == (CHOOSE e \in cn : e[1] = uri)[2]

\* lines 94-96: namespaces.put(prefix, uri) for every entry; the entries'
\* iteration order, cn_order, decides which of two equal prefixes is kept
\* the puts of entries lo..hi, in order, evaluated half by half
RECURSIVE PutRange(_, _, _, _)
PutRange(table, cn_order, lo, hi) ==
    IF lo > hi THEN table
    ELSE IF lo = hi
    THEN Namespace_put(table, cn_order[lo][2], cn_order[lo][1])
    ELSE LET mid == (lo + hi) \div 2
         IN CHOOSE r \in {PutRange(t, cn_order, mid + 1, hi) :
                            t \in {PutRange(table, cn_order, lo, mid)}} : TRUE

PutAll(table, cn_order, i) == PutRange(table, cn_order, i, Len(cn_order))

EnvElement(n) == [Element_new(n) EXCEPT !.prefix = "env"]

\* lines 116-133: the fold over the reversed sub_codes, seeded with code
RECURSIVE SubcodeFold(_, _, _, _)
SubcodeFold(acc, sub_codes, i, cn) ==
    IF i < 1 THEN acc
    ELSE LET value == [EnvElement("Value") EXCEPT !.children =
                          <<Text(PrefixOf(cn, sub_codes[i][1])
                                 \o <<":", sub_codes[i][2]>>)>>]
             subcode == [EnvElement("Subcode") EXCEPT
                            !.children = <<value, acc>>]
         IN SubcodeFold(subcode, sub_codes, i - 1, cn)

\* lines 137-147: one Text element per reason entry, in iteration order
ReasonElement(reason_order) ==
    [EnvElement("Reason") EXCEPT !.children =
        [i \in 1..Len(reason_order) |->
            [EnvElement("Text") EXCEPT
                !.attributes = {<<"xml:lang", to_639_3(reason_order[i][1])>>},
                !.children = <<Text(<<reason_order[i][2]>>)>>]]]

\* impl From<SoapFault> for SoapMessage; uri_order, cn_order and
\* reason_order are the iteration orders of the three hash collections
FaultToMessage(val, uri_order, cn_order, reason_order) ==
    LET cn == code_namespaces(uri_order)
        namespaces ==
            PutAll(Namespace_put(Namespace_put({}, PFX_xml, XML_NS),
                                 PFX_env, ENV_NS), cn_order, 1)
        value == [EnvElement("Value") EXCEPT !.children =
                     <<Text(PFX_env \o <<":", val.code>>)>>]
        code0 == [EnvElement("Fault") EXCEPT !.children = <<value>>]
        code == SubcodeFold(code0, val.sub_codes, Len(val.sub_codes), cn)
        fault0 == [EnvElement("Fault") EXCEPT !.children =
                      <<code, ReasonElement(reason_order)>>]
        fault1 == IF val.detail.kind = "Element"
                  THEN PushChild(fault0, val.detail) ELSE fault0
        body == [EnvElement("Body") EXCEPT !.children = <<fault1>>]
    IN [Element_new("Enveloppe") EXCEPT
           !.namespace = ENV_NS,
           !.namespaces = namespaces,
           !.children = <<body>>]

\* ------------------------------------------------------------------------
\* Bounds and input sets

MaxOps == 2        \* Body children of a request
MaxKids == 2       \* Body children of an envelope given to the merger
MaxCalls == 703    \* calls of PrefixGenerator.next(): a .. zz, aaa
MaxSubcodes == 2   \* sub_codes of a SoapFault
MaxAdds == 3       \* add_operation calls while a router is built
MaxKids3 == 1      \* Body children of each of three envelopes merged
FewUris == 40      \* distinct subcode URIs of a small SoapFault
MaxUris == 3766    \* distinct subcode URIs of the largest SoapFault

RECURSIVE SeqsUpTo(_, _)
SeqsUpTo(n, S) ==
    IF n = 0 THEN {<<>>}
    ELSE LET shorter == SeqsUpTo(n - 1, S)
         IN shorter \cup {Append(q, x) : q \in {r \in shorter : Len(r) = n - 1},
                                         x \in S}

\* an element m:<n> holding one text
MElement(n, kids) ==
    [Element_new(n) EXCEPT !.prefix = "m", !.namespace = M_NS,
                           !.children = kids]

PriceT == MElement("GetStockPrice", <<MElement("StockName", <<Text(<<"T">>)>>)>>)
PriceY == MElement("GetStockPrice", <<MElement("StockName", <<Text(<<"Y">>)>>)>>)
Ping == Element_new("Ping")
Unknown == MElement("Unknown", <<>>)
Junk == Text(<<"junk">>)

RequestItems == {PriceT, PriceY, Ping, Unknown, Junk}

\* an element named n in namespace ns (None: no namespace)
NsElement(n, ns, attrs, kids) ==
    [Element_new(n) EXCEPT !.prefix = IF ns = None THEN None ELSE "soap",
                           !.namespace = ns, !.attributes = attrs,
                           !.children = kids]

\* a parsed document: a root holding an optional Header and an optional Body
Document(rootname, rootns, rootattrs, header, hasBody, bodyns, bodyattrs, kids) ==
    NsElement(rootname, rootns, rootattrs,
              (IF header THEN <<NsElement("Header", ENV_NS, {}, <<>>)>> ELSE <<>>)
              \o (IF hasBody THEN <<NsElement("Body", bodyns, bodyattrs, kids)>>
                             ELSE <<>>))

Envelope(header, bodyattrs, kids) ==
    Document("Envelope", ENV_NS, {}, header, TRUE, ENV_NS, bodyattrs, kids)

\* an HTTP request body: bytes that cannot be read, bytes that are no
\* well-formed XML, or the bytes of a document
HttpBody(kind, root) == [kind |-> kind, root |-> root]
NoRequest == HttpBody("None", NoElement)

RequestSet ==
    {HttpBody("unreadable", NoElement), HttpBody("malformed", NoElement)}
    \cup {HttpBody("xml", Envelope(h, {}, kids)) :
             h \in BOOLEAN, kids \in SeqsUpTo(MaxOps, RequestItems)}
    \cup {HttpBody("xml", Document(rn, rns, {}, FALSE, hb, bns, {}, <<PriceT>>)) :
             rn \in {"Envelope", "Foo"}, rns \in {ENV_NS, OTHER_NS, None},
             hb \in BOOLEAN, bns \in {ENV_NS, OTHER_NS, None}}

\* ------------------------------------------------------------------------
\* Handlers (router.rs 136-149): a handler ignores its request and state and
\* resolves to Ok(envelope) or Err(SoapFault)

KeyPrice == <<M_NS, "GetStockPrice">>
KeyPing == <<"", "Ping">>
Keys == {KeyPrice, KeyPing}

Handlers == {"price", "pong", "attr", "faulty"}

SenderFault ==
    SoapFaultValue("Sender", <<>>, {<<"Eng", "bad">>}, NoElement)

Outcome(ok, m, f) == [ok |-> ok, msg |-> m, fault |-> f]

HandlerOutcome(h) ==
    CASE h = "price" ->
           Outcome(TRUE, Envelope(TRUE, {}, <<MElement("GetStockPriceResponse",
               <<MElement("StockPrice", <<Text(<<"3.60">>)>>)>>)>>), NoFault)
      [] h = "pong" ->
           Outcome(TRUE, Envelope(FALSE, {}, <<MElement("Pong", <<>>)>>), NoFault)
      [] h = "attr" ->
           Outcome(TRUE, Envelope(FALSE, {<<"id", "1">>},
                                  <<MElement("AttrResponse", <<>>)>>), NoFault)
      [] OTHER -> Outcome(FALSE, NoElement, SenderFault)

\* ------------------------------------------------------------------------
\* SoapRouter (router.rs 151-253, 280-299)

HttpResponse(status, body) == [status |-> status, body |-> body]
NoResponse == HttpResponse(0, <<>>)

\* Element::write into the buffer: the body bytes of the document
WriteXml(e) == <<e>>

EmptyRoutes == [k \in {} |-> None]

\* RoutesInsert that keeps the entry a key already has
RoutesInsert_keep_first(r, key, h) ==
    [k \in DOMAIN r \cup {key} |-> IF k \in DOMAIN r THEN r[k] ELSE h]

\* HashMap::insert: the entry of the key is replaced
RoutesInsert(r, key, h) ==
    [k \in DOMAIN r \cup {key} |-> IF k = key THEN h ELSE r[k]]

\* Element::parse succeeds on the bytes of a well-formed document only
ParseOk(body) == body.kind = "xml"

\* the root test of parse_request, lines 187-191: TRUE when it returns Err
NotSoapMessage(root) == root.name # "Envelope" /\ root.namespace # ENV_NS

\* MalformedSoapMessage looking Body up by its local name alone
MalformedSoapMessage_by_name(root) == get_child(root, "Body", None) = 0

\* the Body test of parse_request, lines 192-197: TRUE when it returns Err
MalformedSoapMessage(root) == get_child(root, "Body", ENV_NS) = 0

\* RouteKey without the unwrap_or_default of the namespace
RouteKey_no_default(elem) == <<elem.namespace, elem.name>>

\* route key of a Body child, lines 228-231
RouteKey(elem) ==
    <<IF elem.namespace = None THEN "" ELSE elem.namespace, elem.name>>

\* the headers snapshot, lines 213-220
HeadersOf(soap_req) ==
    IF get_headers(soap_req) = 0
    THEN [Element_new("Header") EXCEPT !.namespace = ENV_NS]
    ELSE soap_req.children[get_headers(soap_req)]

SoapRequest(headers, body) == [headers |-> headers, body |-> body]

\* the loop of lines 222-237: one future per matched element child
RECURSIVE DispatchLoop(_, _, _, _, _)
DispatchLoop(r, headers, kids, i, queue) ==
    IF i > Len(kids) THEN queue
    ELSE LET elem == kids[i]
         IN IF IsElement(elem) /\ RouteKey(elem) \in DOMAIN r
            THEN DispatchLoop(r, headers, kids, i + 1,
                     Append(queue, [handler |-> r[RouteKey(elem)],
                                    req |-> SoapRequest(headers, elem),
                                    state |-> "pending"]))
            ELSE DispatchLoop(r, headers, kids, i + 1, queue)

\* Yieldable for a FuturesUnordered: any ready future not yet yielded
Yieldable_unordered(queue, done) ==
    {i \in DOMAIN queue : queue[i].state = "ready"
                          /\ \A j \in DOMAIN done : done[j] # i}

\* Yieldable for a stream that hands out the oldest future without waiting
\* for it
Yieldable_unawaited(queue, done) ==
    {i \in DOMAIN queue : i = Len(done) + 1}

\* FuturesOrdered as a stream: the next item is the oldest future not yet
\* yielded, once it is ready
Yieldable(queue, done) ==
    {i \in DOMAIN queue : i = Len(done) + 1 /\ queue[i].state = "ready"}

Abort(why) ==
    /\ pc' = "panicked"
    /\ panic' = why

\* SoapRouter::add_operation, while the router is being built
add_operation(key, h) ==
    /\ pc = "build"
    /\ routes' = RoutesInsert(routes, key, h)
    /\ UNCHANGED <<pc, request, soap_headers, fut, completed, yielded,
                   soap_reponses, response, panic>>

\* Service::call: the router is cloned into the task of one request
call(req) ==
    /\ pc = "build"
    /\ pc' = "parse"
    /\ request' = req
    /\ UNCHANGED <<routes, soap_headers, fut, completed, yielded,
                   soap_reponses, response, panic>>

\* parse_request and the match on its result, lines 183-211
parse_request ==
    /\ pc = "parse"
    /\ IF request.kind = "unreadable"
       THEN Abort("Bytes::from_request unwrap") /\ UNCHANGED response
       ELSE IF ~ParseOk(request)
       THEN Abort("Element::parse unwrap") /\ UNCHANGED response
       ELSE IF NotSoapMessage(request.root) \/ MalformedSoapMessage(request.root)
       THEN /\ response' = HttpResponse(400, <<>>)
            /\ pc' = "done"
            /\ UNCHANGED panic
       ELSE /\ pc' = "dispatch"
            /\ UNCHANGED <<response, panic>>
    /\ UNCHANGED <<routes, request, soap_headers, fut, completed, yielded,
                   soap_reponses>>

\* lines 212-241: the synchronous part of call_internal up to the await
dispatch ==
    /\ pc = "dispatch"
    /\ LET soap_req == request.root
           b == get_body(soap_req)
           headers == HeadersOf(soap_req)
           queue == DispatchLoop(routes, headers, soap_req.children[b].children,
                                 1, <<>>)
       IN IF b = 0
          THEN Abort("get_body unwrap") /\ UNCHANGED <<soap_headers, fut>>
          ELSE /\ soap_headers' = headers
               /\ fut' = queue
               /\ IF queue = <<>>
                  THEN Abort("todo: operations not found")
                  ELSE pc' = "await" /\ UNCHANGED panic
    /\ UNCHANGED <<routes, request, completed, yielded, soap_reponses,
                   response>>

\* a handler future resolves; the futures of one request run concurrently
handler_complete(i) ==
    /\ pc = "await"
    /\ i \in DOMAIN fut
    /\ fut[i].state = "pending"
    /\ fut' = [fut EXCEPT ![i].state = "ready"]
    /\ completed' = Append(completed, i)
    /\ UNCHANGED <<routes, pc, request, soap_headers, yielded, soap_reponses,
                   response, panic>>

\* line 242: the stream yields one result and map unwraps it
stream_yield ==
    /\ pc = "await"
    /\ \E i \in Yieldable(fut, yielded) :
        LET out == HandlerOutcome(fut[i].handler)
        IN /\ yielded' = Append(yielded, i)
           /\ IF out.ok
              THEN /\ soap_reponses' = Append(soap_reponses, out.msg)
                   /\ UNCHANGED <<pc, panic>>
              ELSE /\ Abort("Result::unwrap on Err(SoapFault)")
                   /\ UNCHANGED soap_reponses
    /\ UNCHANGED <<routes, request, soap_headers, fut, completed, response>>

\* lines 244-251: the stream has ended; reduce, serialize, respond
respond ==
    /\ pc = "await"
    /\ Len(yielded) = Len(fut)
    /\ response' = HttpResponse(200, WriteXml(reduce(soap_reponses)))
    /\ pc' = "done"
    /\ UNCHANGED <<routes, request, soap_headers, fut, completed, yielded,
                   soap_reponses, panic>>

\* no accessor has been called
NoRet == [op |-> "none", before |-> 0, idx |-> 0, panicked |-> FALSE]

RouterOff ==
    /\ routes = EmptyRoutes
    /\ pc = "off"
    /\ request = NoRequest
    /\ soap_headers = NoElement
    /\ fut = <<>>
    /\ completed = <<>>
    /\ yielded = <<>>
    /\ soap_reponses = <<>>
    /\ response = NoResponse
    /\ panic = None

MergeOff ==
    /\ ma = NoElement /\ mb = NoElement /\ mres = NoElement
    /\ mc = NoElement /\ mright = NoElement
PrefixOff == prev = <<>> /\ emitted = <<>>
MsgOff ==
    /\ fault = NoFault /\ msg = NoElement /\ msgop = "off"
    /\ new_args = NoFault /\ ret = NoRet
RouteLogOff == added = <<>>

\* SoapRouter::new(state): no routes, no request yet
Init ==
    /\ routes = EmptyRoutes
    /\ pc = "build"
    /\ request = NoRequest
    /\ soap_headers = NoElement
    /\ fut = <<>>
    /\ completed = <<>>
    /\ yielded = <<>>
    /\ soap_reponses = <<>>
    /\ response = NoResponse
    /\ panic = None
    /\ RouteLogOff /\ MergeOff /\ PrefixOff /\ MsgOff

Next ==
    \/ (\E key \in Keys, h \in Handlers : add_operation(key, h))
           /\ UNCHANGED <<routeLogVars, mergeVars, prefixVars, msgVars>>
    \/ (\E req \in RequestSet : call(req))
           /\ UNCHANGED <<routeLogVars, mergeVars, prefixVars, msgVars>>
    \/ parse_request /\ UNCHANGED <<routeLogVars, mergeVars, prefixVars, msgVars>>
    \/ dispatch /\ UNCHANGED <<routeLogVars, mergeVars, prefixVars, msgVars>>
    \/ (\E i \in DOMAIN fut : handler_complete(i))
           /\ UNCHANGED <<routeLogVars, mergeVars, prefixVars, msgVars>>
    \/ stream_yield /\ UNCHANGED <<routeLogVars, mergeVars, prefixVars, msgVars>>
    \/ respond /\ UNCHANGED <<routeLogVars, mergeVars, prefixVars, msgVars>>

Spec == Init /\ [][Next]_vars

\* one step of the task of a request: the synchronous code between two
\* awaits
task_step ==
    /\ parse_request \/ dispatch \/ stream_yield \/ respond
    /\ UNCHANGED <<routeLogVars, mergeVars, prefixVars, msgVars>>

\* one of the request's handler futures resolves
handler_step ==
    /\ \E i \in DOMAIN fut : handler_complete(i)
    /\ UNCHANGED <<routeLogVars, mergeVars, prefixVars, msgVars>>

\* the runtime polls the task of a request until it returns, and drives the
\* handler futures of the request to completion
Fairness == WF_vars(task_step) /\ WF_vars(handler_step)

SpecLive == Init /\ [][Next]_vars /\ Fairness

\* ------------------------------------------------------------------------
\* a router being built: the add_operation calls are recorded

RoutesInit == Init

build_step(key, h) ==
    /\ Len(added) < MaxAdds
    /\ add_operation(key, h)
    /\ added' = Append(added, <<key, h>>)
    /\ UNCHANGED <<mergeVars, prefixVars, msgVars>>

RoutesNext == \E key \in Keys, h \in Handlers : build_step(key, h)

SpecRoutes == RoutesInit /\ [][RoutesNext]_vars

\* ------------------------------------------------------------------------
\* merge_soap_enveloppe as a pure function of two envelopes

RespT == MElement("GetStockPriceResponse", <<MElement("StockPrice", <<Text(<<"T">>)>>)>>)
RespY == MElement("GetStockPriceResponse", <<MElement("StockPrice", <<Text(<<"Y">>)>>)>>)

KidItems == {RespT, RespY, Junk}

AttrSets == {{}, {<<"id", "1">>}}

\* envelopes as handlers return them: parsed documents whose Body is in
\* ENV_NS, and envelopes built like SoapMessage::new(), whose Body has no
\* namespace
MergeInputs ==
    {Document("Envelope", ENV_NS, ra, h, TRUE, bns, ba, kids) :
        ra \in AttrSets, h \in BOOLEAN, bns \in {ENV_NS, None},
        ba \in AttrSets, kids \in SeqsUpTo(MaxKids, KidItems)}

MergeInit ==
    /\ ma \in MergeInputs
    /\ mb \in MergeInputs
    /\ mres = NoElement
    /\ mc = NoElement /\ mright = NoElement
    /\ RouterOff /\ RouteLogOff /\ PrefixOff /\ MsgOff

Merge ==
    /\ mres = NoElement
    /\ mres' = merge_soap_enveloppe(ma, mb)
    /\ UNCHANGED <<ma, mb, mc, mright, routerVars, routeLogVars, prefixVars,
                   msgVars>>

MergeNext == Merge

SpecMerge == MergeInit /\ [][MergeNext]_vars

\* ------------------------------------------------------------------------
\* the fold of three response envelopes, and the same three grouped from
\* the right

HeaderChoices ==
    {NoElement} \cup {NsElement("Header", ENV_NS, at, <<>>) : at \in AttrSets}

Response(rootattrs, header, bodyattrs, kids) ==
    NsElement("Envelope", ENV_NS, rootattrs,
              (IF header = NoElement THEN <<>> ELSE <<header>>)
              \o <<NsElement("Body", ENV_NS, bodyattrs, kids)>>)

\* the envelopes whose Body holds up to MaxKids3 copies of item
Merge3Inputs(item) ==
    {Response(ra, hd, ba, kids) :
        ra \in AttrSets, hd \in HeaderChoices, ba \in AttrSets,
        kids \in SeqsUpTo(MaxKids3, {item})}

Merge3Init ==
    /\ ma \in Merge3Inputs(RespT)
    /\ mb \in Merge3Inputs(RespY)
    /\ mc \in Merge3Inputs(Junk)
    /\ mres = NoElement
    /\ mright = NoElement
    /\ RouterOff /\ RouteLogOff /\ PrefixOff /\ MsgOff

\* mres: the router's reduce over [ma, mb, mc]; mright: ma merged with the
\* merge of mb and mc
Merge3 ==
    /\ mres = NoElement
    /\ mres' = reduce(<<ma, mb, mc>>)
    /\ mright' = merge_soap_enveloppe(ma, merge_soap_enveloppe(mb, mc))
    /\ UNCHANGED <<ma, mb, mc, routerVars, routeLogVars, prefixVars, msgVars>>

Merge3Next == Merge3

SpecMerge3 == Merge3Init /\ [][Merge3Next]_vars

\* ------------------------------------------------------------------------
\* one PrefixGenerator, called repeatedly

PrefixInit ==
    /\ prev = <<>>
    /\ emitted = <<>>
    /\ RouterOff /\ RouteLogOff /\ MergeOff /\ MsgOff

next ==
    /\ Len(emitted) < MaxCalls
    /\ prev' = PrefixGenerator_next(prev)
    /\ emitted' = Append(emitted, String_from_utf8(prev'))
    /\ UNCHANGED <<routerVars, routeLogVars, mergeVars, msgVars>>

PrefixNext == next

SpecPrefix == PrefixInit /\ [][PrefixNext]_vars

\* ------------------------------------------------------------------------
\* the constructors of SoapMessage values

FaultCodes == {"VersionMismatch", "MustUnderstand", "DataEncodingUnknown",
               "Sender", "Receiver"}
U1 == "urn:u1"
U2 == "urn:u2"
SubcodeSet == {<<U1, "x">>, <<U2, "y">>, <<U1, "y">>}
ReasonSet == {<<"Eng", "bad">>, <<"Fra", "mal">>}
DetailSet == {NoElement, MElement("Detail", <<>>)}

MsgInit ==
    /\ fault = NoFault
    /\ msg = NoElement
    /\ msgop = "start"
    /\ new_args = NoFault
    /\ ret = NoRet
    /\ RouterOff /\ RouteLogOff /\ MergeOff /\ PrefixOff

\* SoapMessage::new()
new ==
    /\ msgop = "start"
    /\ msg' = SoapMessage_new
    /\ msgop' = "new"
    /\ UNCHANGED <<fault, new_args, ret, routerVars, routeLogVars, mergeVars,
                   prefixVars>>

\* SoapFault::new(code, sub_codes, reason, detail)
SoapFault_new(code, sub_codes, reason, detail) ==
    /\ msgop = "start"
    /\ IF SoapFault_new_panics(reason)
       THEN msgop' = "panicked" /\ UNCHANGED fault
       ELSE /\ fault' = SoapFaultValue(code, sub_codes, reason, detail)
            /\ msgop' = "fault"
    /\ new_args' = SoapFaultValue(code, sub_codes, reason, detail)
    /\ UNCHANGED <<msg, ret, routerVars, routeLogVars, mergeVars, prefixVars>>

\* Into::<SoapMessage>::into(fault)
from_fault ==
    /\ msgop = "fault"
    /\ \E uri_order \in IterationOrders(SubcodeUris(fault)) :
         \E cn_order \in IterationOrders(code_namespaces(uri_order)) :
           \E reason_order \in IterationOrders(fault.reason) :
             msg' = FaultToMessage(fault, uri_order, cn_order, reason_order)
    /\ msgop' = "from_fault"
    /\ UNCHANGED <<fault, new_args, ret, routerVars, routeLogVars, mergeVars,
                   prefixVars>>

\* the elements handed to From<Element>: envelopes as handlers parse them
ElementInputs ==
    {Envelope(h, {}, kids) : h \in BOOLEAN, kids \in {<<>>, <<PriceT>>}}

\* impl From<xmltree::Element> for SoapMessage
from_element(e) ==
    /\ msgop = "start"
    /\ msg' = e
    /\ msgop' = "from_element"
    /\ UNCHANGED <<fault, new_args, ret, routerVars, routeLogVars, mergeVars,
                   prefixVars>>

\* a message exists and no accessor has panicked on it
Accessible == msg.kind = "Element" /\ ~ret.panicked

\* self.0.children.insert(0, h) of lines 61-63
InsertHeaders(m) ==
    [m EXCEPT !.children =
        <<[Element_new("Headers") EXCEPT !.prefix = "env"]>> \o @]

\* SoapMessage::get_mut_headers: the insertion is made before the unwrap
get_mut_headers ==
    /\ Accessible
    /\ LET before == get_headers(msg)
           m == IF before = 0 THEN InsertHeaders(msg) ELSE msg
           idx == get_child(m, "Header", ENV_NS)
       IN /\ msg' = m
          /\ ret' = [op |-> "get_mut_headers", before |-> before,
                     idx |-> idx, panicked |-> idx = 0]
    /\ UNCHANGED <<fault, msgop, new_args, routerVars, routeLogVars,
                   mergeVars, prefixVars>>

\* SoapMessage::get_body and get_mut_body: the same lookup and unwrap
get_body_call(op) ==
    /\ Accessible
    /\ ret' = [op |-> op, before |-> 0, idx |-> get_body(msg),
               panicked |-> get_body(msg) = 0]
    /\ UNCHANGED <<fault, msg, msgop, new_args, routerVars, routeLogVars,
                   mergeVars, prefixVars>>

MsgNext ==
    \/ new
    \/ \E code \in FaultCodes, sub_codes \in SeqsUpTo(MaxSubcodes, SubcodeSet),
          reason \in SUBSET ReasonSet, detail \in DetailSet :
            SoapFault_new(code, sub_codes, reason, detail)
    \/ from_fault
    \/ \E e \in ElementInputs : from_element(e)
    \/ get_mut_headers
    \/ \E op \in {"get_body", "get_mut_body"} : get_body_call(op)

SpecMsg == MsgInit /\ [][MsgNext]_vars

\* ------------------------------------------------------------------------
\* the namespace declarations of a rendered fault, for faults of few and of
\* very many subcode URIs

\* the k-th of the fault's distinct URIs, counted in the order in which the
\* HashSet of lines 85-89 yields them
Uri(k) == "urn:u" \o ToString(k)

UriCounts == (0..FewUris) \cup {MaxUris}

\* a fault with one subcode per URI and, with again, one more subcode of the
\* first URI
FaultWithUris(n, again) ==
    SoapFaultValue("Sender",
                   [k \in 1..n |-> <<Uri(k), "x">>]
                   \o (IF again THEN <<<<Uri(1), "y">>>> ELSE <<>>),
                   {<<"Eng", "bad">>}, NoElement)

AllocInit ==
    /\ fault \in {FaultWithUris(n, again) :
                    n \in UriCounts, again \in BOOLEAN} \ {FaultWithUris(0, TRUE)}
    /\ msg = NoElement
    /\ msgop = "fault"
    /\ new_args = NoFault
    /\ ret = NoRet
    /\ prev = <<>>
    /\ emitted = <<>>
    /\ RouterOff /\ RouteLogOff /\ MergeOff

\* fault.rs 79-98: the prefixes are generated and declared; msg is env as
\* line 98 leaves it, emitted the prefix of each URI.  xml and env are put
\* first (lines 82-83); the entries of code_namespaces are put in the order
\* of their URIs
declare_namespaces ==
    /\ msgop = "fault"
    /\ \E n \in {Cardinality(SubcodeUris(fault))} :
         \E pairs \in {AssignPrefixes([k \in 1..n |-> Uri(k)])} :
           LET namespaces ==
                   PutAll(Namespace_put(Namespace_put({}, PFX_xml, XML_NS),
                                        PFX_env, ENV_NS), pairs, 1)
           IN /\ emitted' = [i \in DOMAIN pairs |-> pairs[i][2]]
              /\ msg' = [Element_new("Enveloppe") EXCEPT
                            !.namespace = ENV_NS, !.namespaces = namespaces]
    /\ msgop' = "namespaces"
    /\ UNCHANGED <<fault, new_args, ret, prev, routerVars, routeLogVars,
                   mergeVars>>

AllocNext == declare_namespaces

SpecAlloc == AllocInit /\ [][AllocNext]_vars

\* ------------------------------------------------------------------------
\* Properties of the router

\* the element children named Body in ENV_NS
BodyIndexes(e) ==
    {i \in DOMAIN e.children :
        /\ e.children[i].kind = "Element"
        /\ e.children[i].name = "Body"
        /\ e.children[i].namespace = ENV_NS}

\* the SoapMessage shape of the data model
IsEnvelope(e) ==
    /\ e.kind = "Element"
    /\ e.name = "Envelope"
    /\ e.namespace = ENV_NS
    /\ Cardinality(BodyIndexes(e)) = 1

BodyOf(e) == e.children[CHOOSE i \in BodyIndexes(e) : TRUE]

RECURSIVE Flatten(_)
Flatten(ss) == IF ss = <<>> THEN <<>> ELSE Head(ss) \o Flatten(Tail(ss))

\* the request is a SOAP envelope as the specification defines it
ValidRequest ==
    /\ request.kind = "xml"
    /\ IsEnvelope(request.root)

\* the handlers of the request's matched operations, in document order
MatchedHandlers ==
    LET kids == BodyOf(request.root).children
        hit == SelectSeq(kids, LAMBDA c : c.kind = "Element"
                  /\ <<IF c.namespace = None THEN "" ELSE c.namespace, c.name>>
                         \in DOMAIN routes)
    IN [i \in DOMAIN hit |->
          routes[<<IF hit[i].namespace = None THEN "" ELSE hit[i].namespace,
                   hit[i].name>>]]

\* every matched handler succeeds with an envelope, and the envelopes share
\* their Envelope and Body attributes
HandlersAgree ==
    LET hs == MatchedHandlers
    IN /\ \A i \in DOMAIN hs :
            HandlerOutcome(hs[i]).ok /\ IsEnvelope(HandlerOutcome(hs[i]).msg)
       /\ \A i, j \in DOMAIN hs :
            LET a == HandlerOutcome(hs[i]).msg
                b == HandlerOutcome(hs[j]).msg
            IN a.attributes = b.attributes
               /\ BodyOf(a).attributes = BodyOf(b).attributes

Finished == pc \in {"done", "panicked"}

\* C1: a valid request with matched operations o1..on (n >= 1) whose handlers
\* all succeed with envelopes sharing Envelope and Body attributes ends with
\* a success response whose single Body lists the handlers' response
\* operations in the order o1..on, whatever order the futures resolved in.
C1_ResponseInRequestOrder ==
    (Finished /\ ValidRequest /\ Len(MatchedHandlers) >= 1 /\ HandlersAgree)
    => /\ pc = "done"
       /\ response.status = 200
       /\ Len(response.body) = 1
       /\ IsEnvelope(response.body[1])
       /\ BodyOf(response.body[1]).children =
             Flatten([i \in DOMAIN MatchedHandlers |->
                        BodyOf(HandlerOutcome(MatchedHandlers[i]).msg).children])

\* C1 witness: two operations with different responses, answered in request
\* order although the second future resolved first
C1_Witness ==
    /\ pc = "done"
    /\ ValidRequest
    /\ HandlersAgree
    /\ Len(fut) = 2
    /\ fut[1].handler # fut[2].handler
    /\ completed = <<2, 1>>
    /\ response.status = 200

\* C2: the entry point never aborts, and once it has returned, the response
\* is a status code with an empty body or a success with a SOAP envelope.
C2_NeverAborts ==
    /\ pc # "panicked"
    /\ pc = "done" =>
          \/ response.status = 400 /\ response.body = <<>>
          \/ response.status = 200 /\ Len(response.body) = 1

\* C3: a well-formed document whose root is not named Envelope or is not in
\* ENV_NS is answered with 400 and an empty body, and no handler is invoked.
C3_NonEnvelopeRejected ==
    (/\ request.kind = "xml"
     /\ (request.root.name # "Envelope" \/ request.root.namespace # ENV_NS)
     /\ pc \notin {"build", "parse"})
    => /\ pc = "done"
       /\ response = HttpResponse(400, <<>>)
       /\ fut = <<>>

\* the names of the operations the merged Body is to list when faults are
\* merged like responses: a fault contributes one Fault element
ExpectedOperationNames ==
    Flatten([i \in DOMAIN MatchedHandlers |->
        LET out == HandlerOutcome(MatchedHandlers[i])
        IN IF out.ok
           THEN [k \in DOMAIN BodyOf(out.msg).children |->
                    BodyOf(out.msg).children[k].name]
           ELSE <<"Fault">>])

\* C4: a request of several operations of which one faults still gets its
\* response, whose merged Body holds the successful responses and the Fault
\* element in request order (stated for responses whose Body has no
\* attributes, as the Body of a rendered fault).
C4_FaultMergedWithResponses ==
    (/\ Finished /\ ValidRequest
     /\ Len(MatchedHandlers) >= 2
     /\ \E i \in DOMAIN MatchedHandlers : ~HandlerOutcome(MatchedHandlers[i]).ok
     /\ \A i \in DOMAIN MatchedHandlers :
           HandlerOutcome(MatchedHandlers[i]).ok =>
               BodyOf(HandlerOutcome(MatchedHandlers[i]).msg).attributes = {})
    => /\ pc = "done"
       /\ response.status = 200
       /\ Len(response.body) = 1
       /\ BodyIndexes(response.body[1]) # {}
       /\ LET kids == BodyOf(response.body[1]).children
          IN [k \in DOMAIN kids |-> kids[k].name] = ExpectedOperationNames

\* an envelope whose Body holds a Fault with the given code
CarriesFault(e, code) ==
    /\ IsEnvelope(e)
    /\ \E i \in DOMAIN BodyOf(e).children :
         LET f == BodyOf(e).children[i]
         IN /\ f.kind = "Element" /\ f.name = "Fault"
            /\ \E j \in DOMAIN f.children :
                 /\ f.children[j].kind = "Element"
                 /\ f.children[j].name = "Code"
                 /\ \E v \in DOMAIN f.children[j].children :
                      f.children[j].children[v].children
                          = <<Text(PFX_env \o <<":", code>>)>>

\* C5: a valid envelope none of whose Body children matches a route does not
\* crash the entry point and is answered with an envelope carrying a Sender
\* fault.
C5_UnknownOperationFault ==
    (ValidRequest /\ Len(MatchedHandlers) = 0
     /\ pc \notin {"build", "parse", "dispatch"})
    => /\ pc = "done"
       /\ Len(response.body) = 1
       /\ CarriesFault(response.body[1], "Sender")

\* C6: a body that is not well-formed XML is answered with 400 and an empty
\* body.
C6_MalformedXmlRejected ==
    (request.kind = "malformed" /\ pc \notin {"build", "parse"})
    => (pc = "done" /\ response = HttpResponse(400, <<>>))

\* C7: a document whose root passes the envelope check (it is named Envelope
\* or is in ENV_NS, the weakest reading) but that has no Body child in
\* ENV_NS is answered with 400 and an empty body, and no handler is invoked.
C7_MissingBodyRejected ==
    (/\ request.kind = "xml"
     /\ (request.root.name = "Envelope" \/ request.root.namespace = ENV_NS)
     /\ BodyIndexes(request.root) = {}
     /\ pc \notin {"build", "parse"})
    => /\ pc = "done"
       /\ response = HttpResponse(400, <<>>)
       /\ fut = <<>>
       /\ panic = None

\* C7 witness: an Envelope in ENV_NS whose only Body is in another namespace
\* and holds a routed operation has been answered
C7_Witness ==
    /\ pc = "done"
    /\ request.kind = "xml"
    /\ request.root.name = "Envelope" /\ request.root.namespace = ENV_NS
    /\ BodyIndexes(request.root) = {}
    /\ \E i \in DOMAIN request.root.children :
         /\ request.root.children[i].name = "Body"
         /\ request.root.children[i].namespace = OTHER_NS
         /\ request.root.children[i].children = <<PriceT>>
    /\ KeyPrice \in DOMAIN routes
    /\ response = HttpResponse(400, <<>>)

\* ------------------------------------------------------------------------
\* Properties of the merger

\* the element children named Body, whatever their namespace
BodyNamed(e) ==
    {i \in DOMAIN e.children :
        e.children[i].kind = "Element" /\ e.children[i].name = "Body"}

MergeAgree ==
    /\ IsEnvelope(ma) /\ IsEnvelope(mb)
    /\ ma.attributes = mb.attributes
    /\ BodyOf(ma).attributes = BodyOf(mb).attributes

\* C8: for envelopes a and b (each with its Body in ENV_NS) whose roots and
\* Body children have identical attributes, merge(a, b) has a single Body,
\* whose children are a's Body children followed by b's, none dropped,
\* duplicated or deduplicated.
C8_MergeConcatenatesBodies ==
    (mres # NoElement /\ MergeAgree)
    => /\ Cardinality(BodyNamed(mres)) = 1
       /\ IsEnvelope(mres)
       /\ BodyOf(mres).children = BodyOf(ma).children \o BodyOf(mb).children

\* C8 witness: both Bodies hold the same operation, and the merged Body
\* holds it from both
C8_Witness ==
    /\ mres # NoElement
    /\ MergeAgree
    /\ BodyOf(ma).children = <<RespT, RespY>>
    /\ BodyOf(mb).children = <<RespT, Junk>>
    /\ BodyOf(mres).children = <<RespT, RespY, RespT, Junk>>

\* ------------------------------------------------------------------------
\* Properties of the SoapMessage constructors

\* C9: every SoapMessage the core produces has a root named Envelope in
\* ENV_NS with exactly one Body child in ENV_NS.
C9_ProducedEnvelopeShape ==
    msg.kind = "Element" => IsEnvelope(msg)

\* ------------------------------------------------------------------------
\* Properties of the PrefixGenerator

\* C10: the strings returned by successive calls of next() are pairwise
\* distinct.
C10_PrefixesDistinct ==
    \A i, j \in DOMAIN emitted : emitted[i] = emitted[j] => i = j

\* C10 witness: the generator has rolled over from z to aa and from zz to aaa
C10_Witness ==
    /\ Len(emitted) = 703
    /\ emitted[26] = <<"z">>
    /\ emitted[27] = <<"a", "a">>
    /\ emitted[702] = <<"z", "z">>
    /\ emitted[703] = <<"a", "a", "a">>


\* the k-th string of a, b, .., z, aa, ab, .., az, ba, ..: bijective base 26
RECURSIVE KthPrefix(_)
KthPrefix(k) ==
    IF k = 0 THEN <<>>
    ELSE Append(KthPrefix((k - 1) \div 26), Letters[((k - 1) % 26) + 1])

\* position of a lower-case letter in the alphabet, 0 for anything else
LetterRank(c) ==
    IF \E i \in DOMAIN Letters : Letters[i] = c
    THEN CHOOSE i \in DOMAIN Letters : Letters[i] = c ELSE 0

\* s before t in length-then-lexicographic order
RECURSIVE LexLess(_, _)
LexLess(s, t) ==
    /\ s # <<>> /\ t # <<>>
    /\ \/ LetterRank(Head(s)) < LetterRank(Head(t))
       \/ Head(s) = Head(t) /\ LexLess(Tail(s), Tail(t))

ShortLexLess(s, t) ==
    Len(s) < Len(t) \/ (Len(s) = Len(t) /\ LexLess(s, t))

\* C11: the k-th call of next() from the empty state returns the k-th string
\* of a, b, .., z, aa, ab, .., az, ba, ..; every emission is made of
\* lower-case letters and is greater than the one before it in
\* length-then-lexicographic order.
C11_BijectiveBase26Sequence ==
    /\ \A k \in DOMAIN emitted :
          /\ emitted[k] = KthPrefix(k)
          /\ \A i \in DOMAIN emitted[k] : LetterRank(emitted[k][i]) > 0
    /\ \A k \in DOMAIN emitted :
          k > 1 => ShortLexLess(emitted[k - 1], emitted[k])

\* C11 witness: the rollovers z -> aa, az -> ba and zz -> aaa have happened
C11_Witness ==
    /\ Len(emitted) >= 703
    /\ emitted[26] = <<"z">> /\ emitted[27] = <<"a", "a">>
    /\ emitted[52] = <<"a", "z">> /\ emitted[53] = <<"b", "a">>
    /\ emitted[702] = <<"z", "z">> /\ emitted[703] = <<"a", "a", "a">>
    /\ ShortLexLess(emitted[702], emitted[703])


\* ------------------------------------------------------------------------
\* Properties of the rendered fault

\* the first element child of e with the given local name, NoElement if none
ChildNamed(e, n) ==
    IF get_child(e, n, None) = 0 THEN NoElement
    ELSE e.children[get_child(e, n, None)]

\* the Fault element of a rendered message
FaultElement(m) == ChildNamed(ChildNamed(m, "Body"), "Fault")

\* the text of the Value child of e, <<>> when there is none
ValueText(e) ==
    LET v == ChildNamed(e, "Value")
    IN IF v.kind = "Element" /\ Len(v.children) = 1 THEN v.children[1].text
       ELSE <<>>

\* sub_codes[i..] hang below parent as a chain of Subcode elements, each
\* directly inside the one before it
RECURSIVE SubcodeChain(_, _, _)
SubcodeChain(parent, sub_codes, i) ==
    LET s == ChildNamed(parent, "Subcode")
    IN IF i > Len(sub_codes) THEN s.kind = "None"
       ELSE /\ s.kind = "Element"
            /\ ValueText(s) # <<>>
            /\ ValueText(s)[Len(ValueText(s))] = sub_codes[i][2]
            /\ SubcodeChain(s, sub_codes, i + 1)

\* C12: in the envelope rendered from a SoapFault the first child of Fault
\* is the element Code, whose Value has the text env:<code>, and the
\* sub_codes form a Subcode chain below that Code element, sub_codes[0]
\* outermost.
C12_CodeFirstWithSubcodeChain ==
    msgop = "from_fault" =>
        LET f == FaultElement(msg)
        IN /\ f.kind = "Element"
           /\ Len(f.children) >= 1
           /\ f.children[1].kind = "Element"
           /\ f.children[1].name = "Code"
           /\ ValueText(f.children[1]) = PFX_env \o <<":", fault.code>>
           /\ SubcodeChain(f.children[1], fault.sub_codes, 1)


\* the Value texts of the Subcode chain found by descending from e
RECURSIVE SubcodeValues(_)
SubcodeValues(e) ==
    LET s == ChildNamed(e, "Subcode")
    IN (IF e.name = "Subcode" THEN <<ValueText(e)>> ELSE <<>>)
       \o (IF s.kind = "Element" THEN SubcodeValues(s) ELSE <<>>)

\* C13: rendering a fault whose sub_codes are [(u1, x), (u2, y)] binds
\* prefix a to u1 and prefix b to u2, so the subcode values are a:x and b:y
\* on every rendering.
C13_PrefixesInOrderOfAppearance ==
    (msgop = "from_fault" /\ fault.sub_codes = <<<<U1, "x">>, <<U2, "y">>>>)
    => /\ <<<<"a">>, U1>> \in msg.namespaces
       /\ <<<<"b">>, U2>> \in msg.namespaces
       /\ SubcodeValues(FaultElement(msg)) =
             << <<"a", ":", "x">>, <<"b", ":", "y">> >>


\* ------------------------------------------------------------------------
\* Properties of SoapFault::new

\* C14: SoapFault::new called with an empty reason map panics and yields no
\* SoapFault; every SoapFault value that exists has at least one reason.
C14_EmptyReasonPanics ==
    /\ msgop \in {"fault", "panicked", "from_fault"} =>
          /\ new_args.reason = {} <=> msgop = "panicked"
          /\ msgop = "panicked" => fault = NoFault
          /\ msgop # "panicked" => fault = new_args
    /\ fault # NoFault => fault.reason # {}

\* C14 witness: a call with an empty reason map has panicked
C14_Witness ==
    /\ msgop = "panicked"
    /\ new_args.reason = {}
    /\ new_args.code = "Sender"
    /\ new_args.sub_codes = <<>>
    /\ fault = NoFault


\* ------------------------------------------------------------------------
\* Properties of the SoapMessage accessors

\* the element children named Header in ENV_NS
HeaderIndexes(e) ==
    {i \in DOMAIN e.children :
        /\ e.children[i].kind = "Element"
        /\ e.children[i].name = "Header"
        /\ e.children[i].namespace = ENV_NS}

\* C15: get_mut_headers on a message without Header succeeds, inserts one
\* Header in ENV_NS as the first child and returns it; further calls insert
\* nothing, so the envelope holds at most one Header and every call returns
\* that element.
C15_HeaderInsertedOnce ==
    ret.op = "get_mut_headers" =>
        /\ ~ret.panicked
        /\ HeaderIndexes(msg) = {ret.idx}
        /\ ret.before = 0 => ret.idx = 1
        /\ \A i \in DOMAIN msg.children : msg.children[i].name # "Headers"

\* C16: on SoapMessage::new(), get_body and get_mut_body find the Body child
\* by (Body, ENV_NS) without failing, and that Body has no children.
C16_NewMessageHasEmptyBody ==
    (msgop = "new" /\ ret.op \in {"get_body", "get_mut_body"}) =>
        /\ ~ret.panicked
        /\ ret.idx \in BodyIndexes(msg)
        /\ msg.children[ret.idx].children = <<>>


\* ------------------------------------------------------------------------
\* Properties of the route map

\* the positions of the add_operation calls made for a key
AddsOf(key) == {i \in DOMAIN added : added[i][1] = key}

\* C17: the handler looked up for a key is the one of the most recent
\* add_operation with that key; registering a key leaves the other keys'
\* handlers as they were; a key that was never registered has no handler.
C17_LastRegistrationWins ==
    /\ DOMAIN routes \subseteq Keys
    /\ \A key \in Keys :
          IF AddsOf(key) = {} THEN key \notin DOMAIN routes
          ELSE /\ key \in DOMAIN routes
               /\ routes[key] =
                     added[CHOOSE i \in AddsOf(key) :
                               \A j \in AddsOf(key) : j <= i][2]

\* C17 witness: a key registered twice with different handlers, another key
\* registered in between
C17_Witness ==
    /\ added = <<<<KeyPrice, "price">>, <<KeyPing, "pong">>,
                 <<KeyPrice, "faulty">>>>
    /\ routes[KeyPrice] = "faulty"
    /\ routes[KeyPing] = "pong"


\* ------------------------------------------------------------------------
\* Properties of the merger, one level at a time

\* the first child of the accumulator with the qualified name (local name
\* and namespace, absent namespaces being equal) of c; 0 when there is none
QNameChild(accumulator, c) ==
    LET hits == {i \in DOMAIN accumulator.children :
                    /\ IsElement(accumulator.children[i])
                    /\ accumulator.children[i].name = c.name
                    /\ accumulator.children[i].namespace = c.namespace}
    IN IF hits = {} THEN 0 ELSE CHOOSE i \in hits : \A j \in hits : i <= j

\* the treatment of one child c as the specification words it
TreatChild(accumulator, c) ==
    IF ~IsElement(c) THEN PushChild(accumulator, c)
    ELSE LET k == QNameChild(accumulator, c)
         IN IF k = 0 THEN PushChild(accumulator, c)
            ELSE IF accumulator.children[k].attributes = c.attributes
                 THEN [accumulator EXCEPT
                          !.children[k].children = @ \o c.children]
                 ELSE PushChild(accumulator, c)

RECURSIVE TreatChildren(_, _, _)
TreatChildren(accumulator, kids, i) ==
    IF i > Len(kids) THEN accumulator
    ELSE TreatChildren(TreatChild(accumulator, kids[i]), kids, i + 1)

\* C18: merge(accumulator, element) treats each child c of element in
\* source order, one level deep: a non-element is appended; an element with
\* no accumulator child of the same qualified name is appended unchanged;
\* with such a child a of equal attributes, c's children are appended to
\* a's; otherwise c is appended as a sibling.  The accumulator's own
\* children keep their places.
C18_MergeByQualifiedNameOneLevel ==
    mres # NoElement
    => /\ mres = TreatChildren(ma, mb.children, 1)
       /\ Len(mres.children) >= Len(ma.children)
       /\ \A i \in DOMAIN ma.children :
             /\ mres.children[i].kind = ma.children[i].kind
             /\ mres.children[i].name = ma.children[i].name
             /\ mres.children[i].namespace = ma.children[i].namespace
             /\ mres.children[i].attributes = ma.children[i].attributes


\* ------------------------------------------------------------------------
\* Properties of the fold of three envelopes

\* the three envelopes agree at the Envelope and at the Body
Merge3Agree ==
    /\ IsEnvelope(ma) /\ IsEnvelope(mb) /\ IsEnvelope(mc)
    /\ ma.attributes = mb.attributes /\ mb.attributes = mc.attributes
    /\ BodyOf(ma).attributes = BodyOf(mb).attributes
    /\ BodyOf(mb).attributes = BodyOf(mc).attributes

\* the attribute sets of the Header children of e
HeaderAttrs(e) ==
    {e.children[i].attributes :
        i \in {j \in DOMAIN e.children :
                 e.children[j].kind = "Element" /\ e.children[j].name = "Header"}}

\* the Headers the three envelopes carry have the same attributes
HeadersAgree ==
    Cardinality(HeaderAttrs(ma) \cup HeaderAttrs(mb) \cup HeaderAttrs(mc)) <= 1

\* C19 as stated: for three response envelopes whose Envelope roots and
\* Body children share the same attributes, merge(merge(a, b), c) equals
\* merge(a, merge(b, c)).
C19_MergeAssociative ==
    (mres # NoElement /\ Merge3Agree) => mres = mright

\* C19 amended: for three response envelopes whose Envelope roots, Body
\* children and Header children (those that have one) share the same
\* attributes, merge(merge(a, b), c) equals merge(a, merge(b, c)).
C19_MergeAssociativeSameHeaders ==
    (mres # NoElement /\ Merge3Agree /\ HeadersAgree) => mres = mright

\* C19 witness: only the second and third envelope carry a Header, all
\* Bodies hold a response, and both groupings give one Body with the three
\* responses in order followed by one Header
C19_Witness ==
    /\ mres # NoElement
    /\ Merge3Agree /\ HeadersAgree
    /\ HeaderAttrs(ma) = {} /\ HeaderAttrs(mb) # {} /\ HeaderAttrs(mc) # {}
    /\ BodyOf(ma).children = <<RespT>>
    /\ BodyOf(mb).children = <<RespY>>
    /\ BodyOf(mc).children = <<Junk>>
    /\ BodyOf(mres).children = <<RespT, RespY, Junk>>
    /\ Len(mres.children) = 2
    /\ mres = mright


\* ------------------------------------------------------------------------
\* Properties of the dispatch

\* the element children of the request's Body that have a route, in
\* document order
MatchedChildren ==
    SelectSeq(BodyOf(request.root).children,
              LAMBDA c : c.kind = "Element"
                  /\ <<IF c.namespace = None THEN "" ELSE c.namespace, c.name>>
                         \in DOMAIN routes)

\* the Header children of the request's envelope
RequestHeaders ==
    {i \in DOMAIN request.root.children :
        /\ request.root.children[i].kind = "Element"
        /\ request.root.children[i].name = "Header"
        /\ request.root.children[i].namespace = ENV_NS}

\* the headers every invocation of the request is to receive
ExpectedHeaders ==
    IF RequestHeaders = {}
    THEN [kind |-> "Element", text |-> <<>>, prefix |-> None,
          namespace |-> ENV_NS, namespaces |-> {}, name |-> "Header",
          attributes |-> {}, children |-> <<>>]
    ELSE request.root.children[CHOOSE i \in RequestHeaders :
                                   \A j \in RequestHeaders : i <= j]

\* the request has passed parse_request and the dispatch loop
Dispatched == pc \in {"await", "done", "panicked"}

\* C20: for a valid request there is exactly one handler invocation per
\* element child of Body whose (namespace or "", local name) is a route, in
\* document order; its body is that child and its headers are the request's
\* Header, or an empty Header in ENV_NS, the same for every invocation.  Text
\* children and unmatched elements get no invocation, and the response is
\* made of the matched children's responses alone.
C20_OneInvocationPerMatchedChild ==
    (ValidRequest /\ Dispatched)
    => /\ Len(fut) = Len(MatchedChildren)
       /\ \A i \in DOMAIN fut :
             /\ fut[i].req.body = MatchedChildren[i]
             /\ fut[i].req.headers = ExpectedHeaders
             /\ fut[i].handler = MatchedHandlers[i]
       /\ pc = "done" =>
             response = HttpResponse(200,
                 <<reduce([i \in DOMAIN MatchedHandlers |->
                             HandlerOutcome(MatchedHandlers[i]).msg])>>)

\* C20 witness: a request without Header whose Body holds a text, then Ping
\* (no namespace, routed) was answered after one invocation with an empty
\* Header
C20_Witness ==
    /\ pc = "done"
    /\ ValidRequest
    /\ RequestHeaders = {}
    /\ BodyOf(request.root).children = <<Junk, Ping>>
    /\ Len(fut) = 1
    /\ fut[1].req.body = Ping
    /\ fut[1].req.headers.namespace = ENV_NS
    /\ fut[1].req.headers.prefix = None
    /\ response.status = 200


\* ------------------------------------------------------------------------
\* Properties of the await

\* the HTTP response has been returned
Returned == pc = "done" /\ response # NoResponse

\* the futures of the request are enqueued and awaited, and each handler
\* ends with Ok
AwaitingSuccesses ==
    /\ pc = "await"
    /\ \A i \in DOMAIN fut : HandlerOutcome(fut[i].handler).ok

\* C21: the response of a request is returned only after every handler
\* future enqueued for it has completed, and when every one of these
\* handlers completes successfully the response is eventually returned.
C21_ResponseAfterAllFutures ==
    /\ [](Returned => \A i \in DOMAIN fut : fut[i].state = "ready")
    /\ (AwaitingSuccesses ~> (Returned /\ response.status = 200))

\* C21 witness: two futures were enqueued, the first resolved last, and the
\* response was returned after both
C21_Witness ==
    /\ Returned
    /\ response.status = 200
    /\ Len(fut) = 2
    /\ completed = <<2, 1>>
    /\ yielded = <<1, 2>>
    /\ \A i \in DOMAIN fut : fut[i].state = "ready"


\* ------------------------------------------------------------------------
\* Properties of the namespace declarations of a fault

\* the place of a URI in the iteration of the fault's URIs
UriPlace(u) == CHOOSE k \in 1..Cardinality(SubcodeUris(fault)) : Uri(k) = u

\* the prefix written in the Value of the i-th subcode (line 127)
ValuePrefix(i) == emitted[UriPlace(fault.sub_codes[i][1])]

\* C22: in the envelope rendered from a SoapFault, whatever the number of
\* distinct subcode URIs, no allocated prefix is env or xml, every Subcode
\* Value's prefix is declared in the namespace table and bound to the
\* subcode's own URI, equal URIs have the same prefix and distinct URIs
\* distinct prefixes.
C22_SubcodePrefixesDeclared ==
    msgop = "namespaces"
    => /\ \A k \in DOMAIN emitted : emitted[k] \notin {PFX_env, PFX_xml}
       /\ \A i \in DOMAIN fault.sub_codes :
             <<ValuePrefix(i), fault.sub_codes[i][1]>> \in msg.namespaces
       /\ \A i, j \in DOMAIN fault.sub_codes :
             (fault.sub_codes[i][1] = fault.sub_codes[j][1])
                 <=> (ValuePrefix(i) = ValuePrefix(j))

====
